---------------------------- MODULE Spec2Model ----------------------------
(***************************************************************************)
(* A model of custom_components/chore_helper/chore_daily.py: DailyChore.   *)
(*                                                                         *)
(* Dates are day ordinals (integers); a difference of two dates is the     *)
(* integer Python's (a - b).days yields.  Python values that may be None   *)
(* or of several types are tagged records [t, v].  The entity's fields are *)
(* the fields of the record self.  The base class Chore and the helpers    *)
(* module are not part of the source at hand; what DailyChore calls in     *)
(* them is modelled from the design document and marked as such.           *)
(***************************************************************************)
EXTENDS Integers, Sequences, FiniteSets, TLC

(***************************************************************************)
(* Bounds of the model.                                                    *)
(***************************************************************************)
\* the calendar of the model: day ordinals 0..MaxDate
MaxDate == 5
\* the periods the option bag may hold: 1..MaxPeriod
MaxPeriod == 3
\* calls of one entity that may be suspended in a load at the same time
MaxInflight == 2
\* tokens in all three override texts of the option bag together
MaxTokens == 2

Dates == 0..MaxDate

(***************************************************************************)
(* Python values.                                                          *)
(***************************************************************************)
None == [t |-> "none", v |-> 0]
IntV(n) == [t |-> "int", v |-> n]
D(n) == [t |-> "date", v |-> n]
\* a value of the option bag that is no number (e.g. a text)
NotANumber == [t |-> "str", v |-> 0]
\* a key the option bag does not hold
Absent == [t |-> "absent", v |-> 0]
\* the outcome of a call that raised
Raise(e) == [t |-> "raise", v |-> e]

(***************************************************************************)
(* Texts.  A space-delimited text is held as the list text.split(" ")      *)
(* yields, which is never empty: "" splits into the one empty token.       *)
(* A token is a year-month-day text, a "date:delta" offset text, the empty *)
(* text, or anything else (malformed).                                     *)
(***************************************************************************)
Ymd(d) == [t |-> "ymd", v |-> d, delta |-> 0]
Offs(d, k) == [t |-> "offs", v |-> d, delta |-> k]
EmptyTok == [t |-> "empty", v |-> 0, delta |-> 0]
BadTok == [t |-> "bad", v |-> 0, delta |-> 0]
Text(tokens) == [t |-> "text", v |-> tokens]

\* str.split(" ")
Split(text) == text.v
\* " ".join(tokens)
Join(tokens) == IF tokens = <<>> THEN Text(<<EmptyTok>>) ELSE Text(tokens)
\* x.split(":")[0]
SplitColon0(x) == IF x.t = "offs" THEN Ymd(x.v) ELSE x
\* datetime.strptime(x, "%Y-%m-%d").date()
strptime_date(x) == IF x.t = "ymd" THEN D(x.v) ELSE Raise("ValueError")

VARIABLES
    options,          \* config_entry.options, the persisted option bag
    self,             \* the DailyChore entity (its fields)
    is_running,       \* hass.is_running
    ready,            \* what _async_ready_for_update answers
    now,              \* the date of ha_now()
    au_waiting,       \* async_update calls suspended in the due-date load
    c_args,           \* the timestamps of the complete calls suspended in
                      \* the due-date load, in the order they were called
    ha_state,         \* the state last written with async_write_ha_state
    event,            \* the last chore_helper_loaded event on the bus
    last,             \* the last step: operation, outcome, what it did
    fc_day1,          \* the argument of the last _find_candidate_date call
    fc_result         \* what that call returned or raised

vars == <<options, self, is_running, ready, now, au_waiting, c_args,
          ha_state, event, last, fc_day1, fc_result>>

(***************************************************************************)
(* config.get(key, default)                                                *)
(***************************************************************************)
ConfigGet(entry, default) == IF entry = Absent THEN default ELSE entry

(***************************************************************************)
(* DailyChore.__init__ after Chore.__init__: the fields of a new entity.   *)
(***************************************************************************)
__init__(config) ==
    [ _period        |-> ConfigGet(config.period, IntV(1)),
      _start_date    |-> config.start_date,
      _manual        |-> config.manual,
      _add_dates     |-> config.add_dates,
      _remove_dates  |-> config.remove_dates,
      _offset_dates  |-> config.offset_dates,
      entity_id      |-> None,
      last_completed |-> None,
      _due_dates     |-> <<>>,
      _last_updated  |-> None,
      _next_due_date |-> None,
      _days          |-> None,
      _attr_state    |-> None,
      _attr_icon     |-> "normal",
      _overdue       |-> FALSE,
      _overdue_days  |-> None ]

(***************************************************************************)
(* Chore._calculate_schedule_start_date: the anchor of the interval        *)
(* arithmetic is the configured schedule start date.                       *)
(***************************************************************************)
_calculate_schedule_start_date(s) == s._start_date

(***************************************************************************)
(* Chore.calculate_day1: day1 is normalised to be no earlier than the      *)
(* schedule start date; without an anchor there is nothing to clamp to.    *)
(***************************************************************************)
calculate_day1(s, day1, schedule_start_date) ==
    IF schedule_start_date.t = "date" /\ schedule_start_date.v > day1.v
    THEN schedule_start_date
    ELSE day1

\* mutant: the offset is the remainder itself, not period - remainder
FindCandidate_OffsetIsRemainder(s, day1_arg) ==
    LET schedule_start_date == _calculate_schedule_start_date(s)
        day1 == calculate_day1(s, day1_arg, schedule_start_date)
    IN  IF schedule_start_date = None \/ s._period = None
        THEN None
        ELSE IF s._period.t # "int"
        THEN Raise("ValueError")
        ELSE LET remainder == (day1.v - schedule_start_date.v) % s._period.v
             IN  IF remainder = 0 THEN day1 ELSE D(day1.v + remainder)

\* mutant: the remainder == 0 shortcut is missing, a full period is added
FindCandidate_NoShortcut(s, day1_arg) ==
    LET schedule_start_date == _calculate_schedule_start_date(s)
        day1 == calculate_day1(s, day1_arg, schedule_start_date)
    IN  IF schedule_start_date = None \/ s._period = None
        THEN None
        ELSE IF s._period.t # "int"
        THEN Raise("ValueError")
        ELSE LET remainder == (day1.v - schedule_start_date.v) % s._period.v
                 offset == s._period.v - remainder
             IN  D(day1.v + offset)

(***************************************************************************)
(* DailyChore._find_candidate_date(day1).  A missing anchor or period is   *)
(* logged and answered with None (lines 120-125); the arithmetic on a      *)
(* period that is no number raises TypeError, re-raised as ValueError      *)
(* (lines 132-136).                                                        *)
(***************************************************************************)
_find_candidate_date(s, day1_arg) ==
    LET schedule_start_date == _calculate_schedule_start_date(s)
        day1 == calculate_day1(s, day1_arg, schedule_start_date)
    IN  IF schedule_start_date = None \/ s._period = None
        THEN None
        ELSE IF s._period.t # "int"
        THEN Raise("ValueError")
        ELSE LET remainder == (day1.v - schedule_start_date.v) % s._period.v
                 offset == s._period.v - remainder
             IN  IF remainder = 0 THEN day1 ELSE D(day1.v + offset)

(***************************************************************************)
(* Chore._calculate_start_date: the start-date boundary of a cycle, the    *)
(* schedule start date moved up to the last completion when that is later. *)
(***************************************************************************)
_calculate_start_date(s) ==
    IF s.last_completed.t = "date" /\ s.last_completed.v > s._start_date.v
    THEN s.last_completed
    ELSE s._start_date

(***************************************************************************)
(* Chore.get_next_due_date(start_date): the first of the loaded due dates  *)
(* that is not before start_date, None when there is none.                 *)
(***************************************************************************)
get_next_due_date(s, start_date) ==
    LET later == SelectSeq(s._due_dates, LAMBDA d : d >= start_date.v)
    IN  IF later = <<>> THEN None ELSE D(Head(later))

(***************************************************************************)
(* helpers.dates_to_texts: each date as its year-month-day text.           *)
(***************************************************************************)
dates_to_texts(dates) == [i \in 1..Len(dates) |-> Ymd(dates[i])]

\* mutant: tomorrow is classified as a normal day
IconFor_TomorrowIsNormal(days, old) ==
    IF days >= 1 THEN "normal"
    ELSE IF days < 0 THEN "overdue"
    ELSE IF days = 0 THEN "today"
    ELSE old

(***************************************************************************)
(* update_state, lines 70-77: the icon for a number of days; when no       *)
(* branch is taken the icon keeps its value.                               *)
(***************************************************************************)
IconFor(days, old) ==
    IF days > 1 THEN "normal"
    ELSE IF days < 0 THEN "overdue"
    ELSE IF days = 0 THEN "today"
    ELSE IF days = 1 THEN "tomorrow"
    ELSE old

\* mutant: a chore due today is flagged overdue
DueFields_TodayIsOverdue(s, today) ==
    LET days == s._next_due_date.v - today
    IN  [s EXCEPT !._days = IntV(days),
                  !._attr_state = IntV(days),
                  !._attr_icon = IconFor(days, s._attr_icon),
                  !._overdue = (days <= 0),
                  !._overdue_days = IntV(IF days > -1 THEN 0 ELSE -days)]

(***************************************************************************)
(* update_state, lines 55-79: the fields when a next due date was found.   *)
(***************************************************************************)
DueFields(s, today) ==
    LET days == s._next_due_date.v - today
    IN  [s EXCEPT !._days = IntV(days),
                  !._attr_state = IntV(days),
                  !._attr_icon = IconFor(days, s._attr_icon),
                  !._overdue = (days < 0),
                  !._overdue_days = IntV(IF days > -1 THEN 0 ELSE -days)]

\* mutant: the branch without a due date leaves the icon and the flag alone
NoDueFields_KeepsIcon(s) ==
    [s EXCEPT !._days = None,
              !._attr_state = None,
              !._overdue_days = None]

(***************************************************************************)
(* update_state, lines 80-85: the fields when there is no next due date.   *)
(***************************************************************************)
NoDueFields(s) ==
    [s EXCEPT !._days = None,
              !._attr_state = None,
              !._attr_icon = "normal",
              !._overdue = FALSE,
              !._overdue_days = None]

\* mutant: the boundary is off by one day, yesterday's entries survive
prune_dates_OffByOne(text, start_date) ==
    IF \E i \in 1..Len(Split(text)) : strptime_date(Split(text)[i]).t = "raise"
    THEN Raise("ValueError")
    ELSE Join(SelectSeq(Split(text),
                        LAMBDA x : strptime_date(x).v >= start_date.v - 1))

(***************************************************************************)
(* update_state, lines 89-95 and 97-103: the tokens of an add or remove    *)
(* text whose date is not before start_date, joined again.  A token that   *)
(* strptime rejects raises ValueError out of the comprehension.            *)
(***************************************************************************)
prune_dates(text, start_date) ==
    IF \E i \in 1..Len(Split(text)) : strptime_date(Split(text)[i]).t = "raise"
    THEN Raise("ValueError")
    ELSE Join(SelectSeq(Split(text),
                        LAMBDA x : strptime_date(x).v >= start_date.v))

(***************************************************************************)
(* update_state, lines 105-112: the same for the offset text, on the part  *)
(* of each token before the ":".                                           *)
(***************************************************************************)
prune_offsets(text, start_date) ==
    IF \E i \in 1..Len(Split(text)) :
           strptime_date(SplitColon0(Split(text)[i])).t = "raise"
    THEN Raise("ValueError")
    ELSE Join(SelectSeq(Split(text),
                LAMBDA x : strptime_date(SplitColon0(x)).v >= start_date.v))

(***************************************************************************)
(* What async_write_ha_state publishes: the derived state of the entity.   *)
(***************************************************************************)
HaState(s) ==
    [ state         |-> s._attr_state,
      icon          |-> s._attr_icon,
      next_due_date |-> s._next_due_date,
      days          |-> s._days,
      overdue       |-> s._overdue,
      overdue_days  |-> s._overdue_days,
      last_updated  |-> s._last_updated ]

\* mutant: the time of the update is stored as the time of completion
Stamp_AsCompletion(s, now_date) ==
    [s EXCEPT !._last_updated = D(now_date), !.last_completed = D(now_date)]

(***************************************************************************)
(* update_state, line 52: self._last_updated = ha_now().                   *)
(***************************************************************************)
Stamp(s, now_date) == [s EXCEPT !._last_updated = D(now_date)]

\* mutant: the rule is asked directly, past the loaded due dates
NextDueDate_AsksRule(s) ==
    LET c == _find_candidate_date(s, _calculate_start_date(s))
    IN  [s EXCEPT !._next_due_date = IF c.t = "date" THEN c ELSE None]

(***************************************************************************)
(* update_state, line 54: the next due date from the start-date boundary.  *)
(***************************************************************************)
NextDueDate(s) ==
    [s EXCEPT !._next_due_date =
                  get_next_due_date(s, _calculate_start_date(s))]

(***************************************************************************)
(* DailyChore.update_state past its entity-id check (lines 51-113) at the  *)
(* time now: the entity afterwards, the exception that ended it (None when *)
(* it returned) and whether it reached async_write_ha_state.  An exception *)
(* in a pruning step leaves the assignments before it in place.            *)
(***************************************************************************)
update_state_run(s, now_date) ==
    LET s0 == NextDueDate(Stamp(s, now_date))
        s1 == IF s0._next_due_date # None
              THEN DueFields(s0, now_date)
              ELSE NoDueFields(s0)
        start_date == _calculate_start_date(s1)
        a  == IF s1._add_dates # None
              THEN prune_dates(s1._add_dates, start_date)
              ELSE None
        s2 == [s1 EXCEPT !._add_dates = a]
        r  == IF s2._remove_dates # None
              THEN prune_dates(s2._remove_dates, start_date)
              ELSE None
        s3 == [s2 EXCEPT !._remove_dates = r]
        o  == IF s3._offset_dates # None
              THEN prune_offsets(s3._offset_dates, start_date)
              ELSE None
        s4 == [s3 EXCEPT !._offset_dates = o]
    IN  IF a.t = "raise" THEN [self |-> s1, exc |-> a, wrote |-> FALSE]
        ELSE IF r.t = "raise" THEN [self |-> s2, exc |-> r, wrote |-> FALSE]
        ELSE IF o.t = "raise" THEN [self |-> s3, exc |-> o, wrote |-> FALSE]
        ELSE [self |-> s4, exc |-> None, wrote |-> TRUE]

\* mutant: the entity id is not looked at
update_state_NoEntityIdGate(s, now_date) == update_state_run(s, now_date)

(***************************************************************************)
(* DailyChore.update_state (lines 45-113): without an entity id it logs an *)
(* error and returns (lines 47-49).                                        *)
(***************************************************************************)
update_state(s, now_date) ==
    IF s.entity_id = None
    THEN [self |-> s, exc |-> None, wrote |-> FALSE]
    ELSE update_state_run(s, now_date)

(***************************************************************************)
(* The due-date load of the base class (Chore._async_load_due_dates):      *)
(* from the start-date boundary on, ask the rule for the next candidate;   *)
(* a candidate in the removed set is suppressed and the rule is asked for  *)
(* the one after it; a candidate that is the target of an offset entry is  *)
(* shifted by the entry's delta; the added dates not before the boundary   *)
(* are merged in; a date of the removed set is never among the due dates.  *)
(* The lookahead ends one period past the calendar.  A malformed           *)
(* token met here, or a configuration error of the rule, ends the load     *)
(* with the error.  The empty text decodes to no token.                    *)
(***************************************************************************)
Decode(text) ==
    IF text = None THEN <<>>
    ELSE SelectSeq(Split(text), LAMBDA x : x.t # "empty")

Range(seq) == {seq[i] : i \in 1..Len(seq)}

\* the end of the lookahead of the load: one period past the calendar
Horizon == MaxDate + MaxPeriod

RECURSIVE RawCandidates(_, _)
RawCandidates(s, day1) ==
    LET c == _find_candidate_date(s, D(day1))
    IN  IF c.t # "date" \/ c.v > Horizon
        THEN {}
        ELSE {c.v} \cup RawCandidates(s, c.v + 1)

RECURSIVE Sorted(_)
Sorted(set) ==
    IF set = {} THEN <<>>
    ELSE LET m == CHOOSE x \in set : \A y \in set : x <= y
         IN  <<m>> \o Sorted(set \ {m})

ApplyOffset(offsets, c) ==
    LET hits == SelectSeq(offsets, LAMBDA x : x.v = c)
    IN  IF hits = <<>> THEN c ELSE c + Head(hits).delta

_async_load_due_dates(s) ==
    LET start_date == _calculate_start_date(s)
        added   == Decode(s._add_dates)
        removed == Decode(s._remove_dates)
        offsets == Decode(s._offset_dates)
        first   == _find_candidate_date(s, start_date)
        kept    == RawCandidates(s, start_date.v) \ {x.v : x \in Range(removed)}
    IN  IF \/ \E x \in Range(added) \cup Range(removed) : x.t # "ymd"
           \/ \E x \in Range(offsets) : x.t # "offs"
        THEN Raise("ValueError")
        ELSE IF first.t = "raise"
        THEN first
        ELSE [t |-> "dates",
              v |-> Sorted(({ApplyOffset(offsets, c) : c \in kept}
                            \cup {x.v : x \in {y \in Range(added) :
                                                  y.v >= start_date.v}})
                           \ {x.v : x \in Range(removed)})]

(***************************************************************************)
(* The calls suspended at line 151, await self._async_load_due_dates().    *)
(***************************************************************************)
c_waiting == Len(c_args)

Remove(seq, i) == SubSeq(seq, 1, i - 1) \o SubSeq(seq, i + 1, Len(seq))

(***************************************************************************)
(* What a step leaves in last; ts is the argument of a complete call.      *)
(***************************************************************************)
Step(op, outcome, fired, wrote, s) ==
    [op |-> op, outcome |-> outcome, fired |-> fired, wrote |-> wrote,
     was_overdue |-> s._overdue, ts |-> None]

Outcome(exc) == IF exc = None THEN "ok" ELSE exc.v

\* mutant: the entity id is not looked at before the load is started
AsyncUpdateBegin_NoEntityIdGate ==
    /\ au_waiting + c_waiting < MaxInflight
    /\ IF ~ready \/ ~is_running
       THEN /\ last' = Step("async_update", "skipped", 0, FALSE, self)
            /\ UNCHANGED au_waiting
       ELSE /\ last' = Step("async_update", "suspended", 0, FALSE, self)
            /\ au_waiting' = au_waiting + 1
    /\ UNCHANGED <<options, self, is_running, ready, now, c_args,
                   ha_state, event, fc_day1, fc_result>>

(***************************************************************************)
(* DailyChore.async_update up to the await of the load (lines 18-32).      *)
(***************************************************************************)
AsyncUpdateBegin ==
    /\ au_waiting + c_waiting < MaxInflight
    /\ IF ~ready \/ ~is_running
       THEN /\ last' = Step("async_update", "skipped", 0, FALSE, self)
            /\ UNCHANGED au_waiting
       ELSE IF self.entity_id = None
       THEN /\ last' = Step("async_update", "skipped", 0, FALSE, self)
            /\ UNCHANGED au_waiting
       ELSE /\ last' = Step("async_update", "suspended", 0, FALSE, self)
            /\ au_waiting' = au_waiting + 1
    /\ UNCHANGED <<options, self, is_running, ready, now, c_args,
                   ha_state, event, fc_day1, fc_result>>

(***************************************************************************)
(* DailyChore.async_update from the end of the load on (lines 32-43).      *)
(***************************************************************************)
AsyncUpdateResume ==
    /\ au_waiting > 0
    /\ au_waiting' = au_waiting - 1
    /\ LET loaded == _async_load_due_dates(self)
           s1 == [self EXCEPT !._due_dates = loaded.v]
           u  == update_state(s1, now)
       IN  IF loaded.t = "raise"
           THEN /\ last' = Step("async_update", loaded.v, 0, FALSE, self)
                /\ UNCHANGED <<self, ha_state, event>>
           ELSE /\ event' = [entity_id |-> s1.entity_id,
                             due_dates |-> dates_to_texts(s1._due_dates)]
                /\ IF ~s1._manual
                   THEN /\ self' = u.self
                        /\ ha_state' = IF u.wrote THEN HaState(u.self)
                                                  ELSE ha_state
                        /\ last' = Step("async_update", Outcome(u.exc), 1,
                                        u.wrote, self)
                   ELSE /\ self' = s1
                        /\ last' = Step("async_update", "ok", 1, FALSE, self)
                        /\ UNCHANGED ha_state
    /\ UNCHANGED <<options, is_running, ready, now, c_args,
                   fc_day1, fc_result>>

\* the timestamps complete is called with: the current day or the day before
CompletionTimes == {now - 1, now} \cap Dates

(***************************************************************************)
(* DailyChore.complete(last_completed) up to the await of the load         *)
(* (lines 148-151).                                                        *)
(***************************************************************************)
CompleteBegin ==
    /\ au_waiting + c_waiting < MaxInflight
    /\ \E ts \in CompletionTimes :
          /\ self' = [self EXCEPT !.last_completed = D(ts)]
          /\ c_args' = Append(c_args, ts)
          /\ last' = [Step("complete", "suspended", 0, FALSE, self)
                        EXCEPT !.ts = D(ts)]
    /\ UNCHANGED <<options, is_running, ready, now, au_waiting,
                   ha_state, event, fc_day1, fc_result>>

(***************************************************************************)
(* DailyChore.complete from the end of the load on (lines 151-157).        *)
(***************************************************************************)
CompleteResume ==
    /\ \E i \in 1..Len(c_args) :
          /\ c_args' = Remove(c_args, i)
          /\ LET loaded == _async_load_due_dates(self)
                 s1 == [self EXCEPT !._due_dates = loaded.v]
                 u  == update_state(s1, now)
             IN  IF loaded.t = "raise"
                 THEN /\ last' = [Step("complete", loaded.v, 0, FALSE, self)
                                    EXCEPT !.ts = D(c_args[i])]
                      /\ UNCHANGED <<self, ha_state>>
                 ELSE /\ self' = u.self
                      /\ ha_state' = IF u.wrote THEN HaState(u.self)
                                                ELSE ha_state
                      /\ last' = [Step("complete", Outcome(u.exc), 0,
                                        u.wrote, self)
                                    EXCEPT !.ts = D(c_args[i])]
    /\ UNCHANGED <<options, is_running, ready, now, au_waiting, event,
                   fc_day1, fc_result>>

(***************************************************************************)
(* DailyChore.update_state called on its own (lines 45-113).               *)
(***************************************************************************)
UpdateState ==
    /\ LET u == update_state(self, now)
       IN  /\ self' = u.self
           /\ ha_state' = IF u.wrote THEN HaState(u.self) ELSE ha_state
           /\ last' = Step("update_state",
                           IF self.entity_id = None THEN "skipped"
                                                    ELSE Outcome(u.exc),
                           0, u.wrote, self)
    /\ UNCHANGED <<options, is_running, ready, now, au_waiting, c_args,
                   event, fc_day1, fc_result>>

(***************************************************************************)
(* The host: time passes, the host starts and stops, the readiness check   *)
(* changes its answer, the entity is registered and removed.               *)
(***************************************************************************)
Tick ==
    /\ now < MaxDate
    /\ now' = now + 1
    /\ last' = Step("host", "ok", 0, FALSE, self)
    /\ UNCHANGED <<options, self, is_running, ready, au_waiting, c_args,
                   ha_state, event, fc_day1, fc_result>>

SetRunning ==
    /\ is_running' = ~is_running
    /\ last' = Step("host", "ok", 0, FALSE, self)
    /\ UNCHANGED <<options, self, ready, now, au_waiting, c_args,
                   ha_state, event, fc_day1, fc_result>>

SetReady ==
    /\ ready' = ~ready
    /\ last' = Step("host", "ok", 0, FALSE, self)
    /\ UNCHANGED <<options, self, is_running, now, au_waiting, c_args,
                   ha_state, event, fc_day1, fc_result>>

EntityId == [t |-> "str", v |-> 1]

Register ==
    /\ self.entity_id = None
    /\ self' = [self EXCEPT !.entity_id = EntityId]
    /\ last' = Step("host", "ok", 0, FALSE, self)
    /\ UNCHANGED <<options, is_running, ready, now, au_waiting, c_args,
                   ha_state, event, fc_day1, fc_result>>

Unregister ==
    /\ self.entity_id # None
    /\ self' = [self EXCEPT !.entity_id = None]
    /\ last' = Step("host", "ok", 0, FALSE, self)
    /\ UNCHANGED <<options, is_running, ready, now, au_waiting, c_args,
                   ha_state, event, fc_day1, fc_result>>

(***************************************************************************)
(* A call of _find_candidate_date with any day1.                           *)
(***************************************************************************)
FindCandidate ==
    /\ \E d \in Dates :
          /\ fc_day1' = D(d)
          /\ fc_result' = _find_candidate_date(self, D(d))
    /\ last' = Step("_find_candidate_date", "ok", 0, FALSE, self)
    /\ UNCHANGED <<options, self, is_running, ready, now, au_waiting,
                   c_args, ha_state, event>>

(***************************************************************************)
(* Option bags.                                                            *)
(***************************************************************************)
PeriodEntries == {Absent, None, NotANumber} \cup {IntV(n) : n \in 1..MaxPeriod}

\* the dates override tokens are drawn from
TokenDates == {0, 4}
DateTokens == {EmptyTok, BadTok} \cup {Ymd(d) : d \in TokenDates}
OffsetTokens == {EmptyTok} \cup {Offs(d, 1) : d \in TokenDates}

Texts(tokens) ==
    {None} \cup {Text(q) : q \in UNION {[1..k -> tokens] : k \in 1..MaxTokens}}

TokenCount(text) == IF text = None THEN 0 ELSE Len(Split(text))

Ledgers ==
    {l \in [add_dates : Texts(DateTokens), remove_dates : Texts(DateTokens),
            offset_dates : Texts(OffsetTokens)] :
        TokenCount(l.add_dates) + TokenCount(l.remove_dates)
            + TokenCount(l.offset_dates) <= MaxTokens}

\* a ledger of the plain kind: nothing, one removed date, one offset
PlainLedgers ==
    {l \in Ledgers :
        /\ l.add_dates = None
        /\ l.remove_dates \in {None, Text(<<Ymd(0)>>)}
        /\ l.offset_dates = None}

OptionBag(period, start_date, manual, ledger) ==
    [period |-> period, start_date |-> start_date, manual |-> manual,
     add_dates |-> ledger.add_dates, remove_dates |-> ledger.remove_dates,
     offset_dates |-> ledger.offset_dates]

Constructed ==
    /\ self = __init__(options)
    /\ is_running = FALSE
    /\ ready = FALSE
    /\ au_waiting = 0
    /\ c_args = <<>>
    /\ ha_state = None
    /\ event = None
    /\ last = Step("__init__", "ok", 0, FALSE, self)
    /\ fc_day1 = None
    /\ fc_result = None

(***************************************************************************)
(* SpecFind: the candidate computation, for every configuration.           *)
(***************************************************************************)
InitFind ==
    /\ options \in {OptionBag(p, sd, FALSE, [add_dates |-> None,
                        remove_dates |-> None, offset_dates |-> None]) :
                    p \in PeriodEntries,
                    sd \in {None} \cup {D(d) : d \in Dates}}
    /\ Constructed
    /\ now = 0

NextFind == FindCandidate

SpecFind == InitFind /\ [][NextFind]_vars

(***************************************************************************)
(* Spec: the entity in its host, from construction on.                     *)
(***************************************************************************)
Init ==
    /\ options \in {OptionBag(p, D(1), m, l) :
                    p \in {Absent, None, NotANumber, IntV(MaxPeriod)},
                    m \in BOOLEAN, l \in PlainLedgers}
    /\ Constructed
    /\ now = 2

Next ==
    \/ AsyncUpdateBegin
    \/ AsyncUpdateResume
    \/ CompleteBegin
    \/ CompleteResume
    \/ UpdateState
    \/ SetRunning
    \/ SetReady
    \/ Register
    \/ Unregister

Spec == Init /\ [][Next]_vars

(***************************************************************************)
(* SpecState: a registered entity in a running host, any ledger, its calls *)
(* made one after the other while time passes.                             *)
(***************************************************************************)
InitState ==
    /\ options \in {OptionBag(p, D(1), FALSE, l) :
                    p \in {None} \cup {IntV(n) : n \in 1..MaxPeriod},
                    l \in Ledgers}
    /\ self = [__init__(options) EXCEPT !.entity_id = EntityId]
    /\ is_running = TRUE
    /\ ready = TRUE
    /\ now = 0
    /\ au_waiting = 0
    /\ c_args = <<>>
    /\ ha_state = None
    /\ event = None
    /\ last = Step("__init__", "ok", 0, FALSE, self)
    /\ fc_day1 = None
    /\ fc_result = None

Idle == au_waiting + c_waiting = 0

NextState ==
    \/ Idle /\ CompleteBegin
    \/ CompleteResume
    \/ Idle /\ UpdateState
    \/ Idle /\ Tick

SpecState == InitState /\ [][NextState]_vars

(***************************************************************************)
(* Properties of the candidate computation, under SpecFind.                *)
(***************************************************************************)
\* a call was made on a chore with a period >= 1 and a schedule start date
FcValidCall ==
    /\ fc_day1 # None
    /\ self._period.t = "int"
    /\ self._period.v >= 1
    /\ self._start_date.t = "date"

\* afterDate normalised to be no earlier than the schedule start date
FcNormalised ==
    IF fc_day1.v < self._start_date.v THEN self._start_date.v ELSE fc_day1.v

\* C1: for every period >= 1, schedule start date and afterDate, the date r
\* that _find_candidate_date returns is a whole number of periods after the
\* schedule start date and is not before afterDate.
C1_CandidateOnGrid ==
    FcValidCall =>
        /\ fc_result.t = "date"
        /\ (fc_result.v - self._start_date.v) % self._period.v = 0
        /\ fc_result.v >= fc_day1.v

\* C1, its case: a call with a non-zero remainder (period 3, day1 the day
\* after the schedule start date, result three days after the start)
C1_Witness ==
    /\ FcValidCall
    /\ self._period.v = 3
    /\ fc_day1.v = self._start_date.v + 1
    /\ fc_result = D(self._start_date.v + 3)

\* C2 as stated: there is no date d with afterDate <= d < r that is a whole
\* number of periods away from the schedule start date.
C2_SmallestFromAfterDate ==
    FcValidCall =>
        /\ fc_result.t = "date"
        /\ \A d \in fc_day1.v .. (fc_result.v - 1) :
              (d - self._start_date.v) % self._period.v # 0

\* C2 as amended: r is the smallest date on the grid that is not before
\* afterDate and not before the schedule start date: no date d with
\* max(afterDate, scheduleStartDate) <= d < r is on the grid, and r is less
\* than a period after max(afterDate, scheduleStartDate).
C2_SmallestFromNormalised ==
    FcValidCall =>
        /\ fc_result.t = "date"
        /\ fc_result.v >= FcNormalised
        /\ fc_result.v - FcNormalised < self._period.v
        /\ \A d \in FcNormalised .. (fc_result.v - 1) :
              (d - self._start_date.v) % self._period.v # 0

\* C2, its case: afterDate is a period or more before the schedule start
\* date, and the result is the schedule start date
C2_Witness ==
    /\ FcValidCall
    /\ fc_day1.v + self._period.v <= self._start_date.v
    /\ fc_result = self._start_date

\* C3: when the schedule start date or the period is missing,
\* _find_candidate_date raises a configuration error (ValueError) to its
\* caller and never returns None.
C3_MissingConfigRaises ==
    (fc_day1 # None /\ (self._start_date = None \/ self._period = None))
        => fc_result = Raise("ValueError")

(***************************************************************************)
(* Properties of the recompute, under SpecState.                           *)
(***************************************************************************)
Max0(n) == IF n > 0 THEN n ELSE 0

\* the classification of the design: icon, overdue flag and overdue days
Classified(days, icon, overdue, overdue_days) ==
    /\ days > 1 => icon = "normal"
    /\ days < 0 => icon = "overdue"
    /\ days = 0 => icon = "today"
    /\ days = 1 => icon = "tomorrow"
    /\ overdue = (days < 0)
    /\ overdue_days = IntV(Max0(-days))

\* C5: whenever update_state finds a next due date, with
\* days = (dueDate - today).days the state it writes (and the entity's own
\* fields) has the icon normal for days > 1, overdue for days < 0, today for
\* days = 0, tomorrow for days = 1, the overdue flag days < 0 and
\* overdueDays = max(0, -days).
C5_StateClassified ==
    /\ (ha_state # None /\ ha_state.next_due_date # None) =>
          LET days == ha_state.next_due_date.v - ha_state.last_updated.v
          IN  /\ ha_state.days = IntV(days)
              /\ ha_state.state = IntV(days)
              /\ Classified(days, ha_state.icon, ha_state.overdue,
                            ha_state.overdue_days)
    /\ self._next_due_date # None =>
          LET days == self._next_due_date.v - self._last_updated.v
          IN  /\ self._days = IntV(days)
              /\ Classified(days, self._attr_icon, self._overdue,
                            self._overdue_days)

\* C5, its case: a state written for a due date two days in the past
C5_Witness ==
    /\ last.wrote
    /\ ha_state.next_due_date # None
    /\ ha_state.days = IntV(-2)
    /\ ha_state.overdue
    /\ ha_state.overdue_days = IntV(2)
    /\ ha_state.icon = "overdue"

\* C6: whenever update_state finds no next due date, the state it writes has
\* due date None, days None, overdue false and the normal icon, whatever the
\* state of the cycle before was.
C6_NoDueDateState ==
    (ha_state # None /\ ha_state.next_due_date = None) =>
        /\ ha_state.days = None
        /\ ha_state.state = None
        /\ ha_state.overdue = FALSE
        /\ ha_state.icon = "normal"

\* C6, its case: a cycle that found no due date wrote its state over an
\* overdue one
C6_Witness ==
    /\ last.wrote
    /\ last.was_overdue
    /\ ha_state.next_due_date = None

\* the dates of the entries of an override text
EntryDates(text) ==
    IF text = None THEN {}
    ELSE {SplitColon0(x).v : x \in {y \in Range(Split(text)) :
                                       SplitColon0(y).t = "ymd"}}

\* C7: after any update_state that completes, none of the add, remove and
\* offset texts holds an entry whose date is before the start-date boundary
\* of that cycle.
C7_PrunedToBoundary ==
    last.wrote =>
        \A d \in EntryDates(self._add_dates) \cup EntryDates(self._remove_dates)
                 \cup EntryDates(self._offset_dates) :
            d >= _calculate_start_date(self).v

\* C7, its case: a completed cycle dropped a stale entry and kept a later one
C7_Witness ==
    /\ last.wrote
    /\ options.add_dates = Text(<<Ymd(0), Ymd(4)>>)
    /\ self._add_dates = Text(<<Ymd(4)>>)

\* C8: update_state called twice in a row with nothing changed in between
\* (configuration, completion record, overrides, now): the second call
\* succeeds and leaves the entity, its override texts and the written
\* state as the first call left them.
C8_Idempotent ==
    [][(last.op = "update_state" /\ last.outcome = "ok"
            /\ last'.op = "update_state")
        => (last'.outcome = "ok" /\ self' = self /\ ha_state' = ha_state)]_vars

(***************************************************************************)
(* Properties of the entity in its host, under Spec.                       *)
(***************************************************************************)
\* C4: a chore built from an option bag without a period has no period (no
\* default takes its place), and every recompute of it (a call that got
\* past the gates of a registered entity) raises a configuration error and
\* writes no state.
C4_NoPeriodIsAnError ==
    (/\ options.period = Absent
     /\ self.entity_id # None
     /\ last.op \in {"update_state", "async_update", "complete"}
     /\ last.outcome \notin {"skipped", "suspended"})
        => /\ self._period.t # "int"
           /\ last.outcome = "ValueError"
           /\ ha_state = None

GateClosed == ~ready \/ ~is_running \/ self.entity_id = None

\* C9: when the readiness check fails, the host is not running or the entity
\* has no entity id, async_update starts no due-date load, fires no event,
\* writes no state, changes no field of the entity, and returns normally.
C9_GateClosedNoWork ==
    [][(AsyncUpdateBegin /\ GateClosed)
        => /\ UNCHANGED <<self, ha_state, event, au_waiting, c_waiting>>
           /\ last'.outcome = "skipped"
           /\ last'.fired = 0
           /\ ~last'.wrote]_vars

\* C9, its case: async_update returned at the gate of a ready, running host
\* because the entity has no entity id
C9_Witness ==
    /\ last.op = "async_update"
    /\ last.outcome = "skipped"
    /\ ready
    /\ is_running
    /\ self.entity_id = None

\* C10: every successful recompute, started by async_update or by complete,
\* fires chore_helper_loaded exactly once, with the entity id and the due
\* dates that recompute loaded; a cycle stopped at the gate fires none.
C10_EventPerRecompute ==
    /\ (\/ (last.op = "async_update" /\ last.outcome = "ok")
        \/ (last.op = "complete" /\ last.wrote))
        => /\ last.fired = 1
           /\ event = [entity_id |-> self.entity_id,
                       due_dates |-> dates_to_texts(self._due_dates)]
    /\ (last.op = "async_update" /\ last.outcome = "skipped")
        => last.fired = 0

\* C11: a chore in manual mode never has its state written by an
\* async_update cycle; a chore not in manual mode has its state written at
\* the end of every async_update that passed the readiness gate (here: of a
\* chore whose period is a number or missing and whose entity is still
\* registered when the cycle ends).
C11_ManualMode ==
    /\ self._manual => ~(last.op = "async_update" /\ last.wrote)
    /\ (/\ ~self._manual
        /\ last.op = "async_update"
        /\ last.outcome \notin {"skipped", "suspended"}
        /\ self._period.t \in {"int", "none"}
        /\ self.entity_id # None)
          => last.wrote

\* C12: complete(ts) stores ts in the completion record before the reload of
\* the due dates starts, and the reload and the state recomputed by that
\* call observe last_completed = ts: when the call ends, the completion
\* record it computed from is the ts it was called with.
C12_CompleteObservesItsTimestamp ==
    /\ (last.op = "complete" /\ last.outcome = "suspended")
          => self.last_completed = last.ts
    /\ (last.op = "complete" /\ last.wrote)
          => self.last_completed = last.ts

(***************************************************************************)
(* Properties of the ledger and of the derived state, under SpecState.     *)
(***************************************************************************)
\* the dates of the schedule of s after d that are not removed
LaterUnremoved(s, d) ==
    {x \in (d + 1)..Horizon :
        /\ x >= s._start_date.v
        /\ (x - s._start_date.v) % s._period.v = 0
        /\ x \notin EntryDates(s._remove_dates)}

\* the raw candidate of the cycle that was just computed from s
RawCandidate(s) == _find_candidate_date(s, _calculate_start_date(s))

\* a cycle on a ledger of removed dates only whose raw candidate is removed
RawCandidateRemoved(s) ==
    /\ s._period.t = "int"
    /\ EntryDates(s._add_dates) = {}
    /\ EntryDates(s._offset_dates) = {}
    /\ RawCandidate(s).v \in EntryDates(s._remove_dates)

C14_PruningNeverAborts ==
    (last.op = "update_state" /\ last.outcome # "skipped")
        => (last.outcome = "ok" /\ last.wrote)

(***************************************************************************)
(* Properties of the entity in its host, under Spec (continued).           *)
(***************************************************************************)
\* no add, remove or offset entry of s is before its start-date boundary
NoStaleEntry(s) ==
    \A d \in EntryDates(s._add_dates) \cup EntryDates(s._remove_dates)
             \cup EntryDates(s._offset_dates) :
        d >= _calculate_start_date(s).v

\* C15: within every recompute the override sets are pruned against the
\* start-date boundary before the overrides are applied to compute the next
\* due date: when a cycle that goes on to write its state applies the
\* overrides (in its due-date load), they hold no entry before the
\* boundary.
C15_PrunedBeforeApplied ==
    [][((CompleteResume \/ AsyncUpdateResume) /\ last'.wrote)
        => NoStaleEntry(self)]_vars

\* C16: the completion record is changed only by complete(): no step of an
\* async_update or update_state call, whether it passes the gates or not,
\* changes last_completed.
C16_OnlyCompleteRecords ==
    [][(AsyncUpdateBegin \/ AsyncUpdateResume \/ UpdateState)
        => self'.last_completed = self.last_completed]_vars

\* C16, its case: an async_update of a completed chore passed the gates,
\* wrote its state and left the completion record as it was
C16_Witness ==
    /\ last.op = "async_update"
    /\ last.outcome = "ok"
    /\ last.wrote
    /\ self.last_completed = D(1)
    /\ self._last_updated = D(2)

\* C17: readiness is checked again after the due-date load resumes: when an
\* async_update resumes from the load while the host is not running or the
\* entity is not registered any more, the cycle fires no event and writes no
\* state.
C17_ReadinessRecheckedAfterLoad ==
    [][(AsyncUpdateResume /\ (~is_running \/ self.entity_id = None))
        => /\ event' = event
           /\ ha_state' = ha_state
           /\ last'.fired = 0
           /\ ~last'.wrote]_vars

\* C18: an update cycle of the entity runs to completion with no other
\* update or completion of the same entity inside it: while one call is
\* suspended in its due-date load, no second async_update or complete call
\* takes a step into its own cycle, so at most one call is ever inside a
\* cycle.
C18_OneCycleAtATime == au_waiting + c_waiting <= 1

(***************************************************************************)
(* Properties of the derived state, under SpecState (continued).           *)
(***************************************************************************)
\* C19: after any sequence of update_state and complete calls, the overdue
\* flag is true only if a next due date exists and days < 0; overdue is true
\* exactly when overdueDays > 0 and exactly when the icon is the overdue
\* icon; and days is null exactly when the next due date is null.
C19_DerivedStateInvariant ==
    /\ self._overdue => (self._next_due_date # None /\ self._days.t = "int"
                            /\ self._days.v < 0)
    /\ self._overdue <=> (self._overdue_days.t = "int"
                            /\ self._overdue_days.v > 0)
    /\ self._overdue <=> (self._attr_icon = "overdue")
    /\ (self._days = None) <=> (self._next_due_date = None)

\* C19, its case: the recompute of a completion found the chore overdue by
\* a day
C19_Witness ==
    /\ last.op = "complete"
    /\ last.wrote
    /\ self._overdue
    /\ self._days = IntV(-1)
    /\ self._overdue_days = IntV(1)
    /\ self._attr_icon = "overdue"
    /\ self._next_due_date # None

(***************************************************************************)
(* Properties of the entity in its host, under Spec (continued).           *)
(***************************************************************************)
\* C20: update_state called on an entity with no entity id changes nothing
\* (last-updated timestamp, next due date, days, overdue fields, icon and
\* the three override texts keep their values) and writes no state; and a
\* complete() that comes back from its load on such an entity writes no
\* state either.
C20_NoEntityIdNoChange ==
    [][/\ (UpdateState /\ self.entity_id = None)
            => /\ UNCHANGED <<self, ha_state, event>>
               /\ ~last'.wrote
       /\ (CompleteResume /\ self.entity_id = None)
            => /\ UNCHANGED ha_state
               /\ ~last'.wrote]_vars

\* C20, its case: update_state returned at its entity-id check on a chore
\* that was completed and never registered
C20_Witness ==
    /\ last.op = "update_state"
    /\ last.outcome = "skipped"
    /\ self.entity_id = None
    /\ self.last_completed # None
    /\ self._last_updated = None
    /\ ha_state = None

==========================================================================
